---- MODULE Spec2Model ----
(***************************************************************************)
(* Model of megabeast/beast_data.py: read_lnp_data, read_beast_data and    *)
(* extract_beast_data.  Each function is a small sequential state machine  *)
(* whose program counter follows the statements of the source; the inputs  *)
(* (the contents of the hdf5 files and the arguments) are chosen in the    *)
(* initial state.  Floating point values are modelled by integers.         *)
(***************************************************************************)
EXTENDS Integers, Sequences, FiniteSets, TLC

\* ---------------------------------------------------------------- bounds
MaxStars == 2
MaxIvals == 2
MaxRows == 2
MaxCols == 2
MaxParams == 2
MaxLnps == 2
MaxGStars == 2
\* caps on the size of one input: samples in a store, cells of a noise array,
\* cells of an index matrix
MaxSamples == 4
MaxNoiseCells == 4
MaxIndexCells == 4

\* values a stored lnp sample may take (log-likelihoods, as integers)
LnpVals == {-3, 1}
\* values a stored idx sample may take
IdxVals == {0, 1}
\* values of the cells of the model grid
GridVals == {5, 7}
\* the parameter arrays handed to extract_beast_data: every row holds its own
\* value, so that a value tells the row it was taken from
TableArray(name, rows) == [r \in 1..rows |-> (IF name = "Av" THEN 10 ELSE 20) + r]
\* names of the physicsmodel grid columns of the model
PhysNames == {"Av", "Rv"}
ReqNames == PhysNames \cup {"completeness"}

VARIABLES
    pc,          \* position of the running function
    err,         \* exception that left the function, "" when none
    \* ---- read_lnp_data
    store,       \* lnp_hdf contents: sequence of groups [lnp, idx], in keys() order
    nstars,      \* argument nstars
    hdf_open,    \* lnp_hdf handle is open
    lnp_init,
    k,
    n_ivals,
    lnp_vals,
    lnp_indxs,
    nread,       \* number of dataset reads done on lnp_hdf
    ret,         \* <<>> until the function returns, then <<value>>
    \* ---- read_beast_data
    grid,        \* beast_seds_hdf['grid']: column name -> 1-D array
    noise,       \* beast_noise_hdf: name -> 2-D array (rows of columns)
    beast_params,
    noise_open,
    seds_open,
    p,           \* position in beast_params
    beast_data,  \* dictionary under construction: sequence of <<name, array>>
    \* ---- extract_beast_data
    indxs,       \* lnp_data['indxs']: [n_lnps, n_stars, a]
    table,       \* beast_data argument: sequence of [name, arr], in keys() order
    beast_on_lnp,
    gk           \* star loop variable k of extract_beast_data

lnpVars == <<store, nstars, hdf_open, lnp_init, k, n_ivals, lnp_vals, lnp_indxs, nread>>
beastVars == <<grid, noise, beast_params, noise_open, seds_open, p, beast_data>>
gatherVars == <<indxs, table, beast_on_lnp, gk>>
vars == <<pc, err, ret, lnpVars, beastVars, gatherVars>>

\* ---------------------------------------------------------------- helpers
SeqsUpTo(S, n) == UNION {[1..m -> S] : m \in 0..n}

\* maximum of a non-empty set of integers
SetMax(S) == CHOOSE x \in S : \A y \in S : y <= x

\* numpy.zeros((rows, cols))
Zeros(rows, cols) == [i \in 1..rows |-> [j \in 1..cols |-> 0]]

\* np.int64(np.array(x)) of the idx dataset: the store holds integers (the
\* sample indexs into the grid), all of them inside the int64 range, so the
\* cast keeps the value
ToInt64(x) == x

\* numpy assignment a[:, col] = src, with a of shape (n, ...): the source of
\* shape (m,) is broadcast to (n,), which numpy allows iff m = n or m = 1
CanBroadcast(m, n) == m = n \/ m = 1

BroadcastTo(src, n) == [i \in 1..n |-> IF Len(src) = n THEN src[i] ELSE src[1]]

SetColumn(mat, col, src) ==
    [i \in DOMAIN mat |-> [mat[i] EXCEPT ![col] = BroadcastTo(src, Len(mat))[i]]]

\* a shift by the maximum of each star (column) instead of the given one
ShiftPerStar(mat, shift) ==
    [i \in DOMAIN mat |-> [j \in DOMAIN mat[i] |->
        mat[i][j] - SetMax({mat[i2][j] : i2 \in DOMAIN mat})]]

\* a count check that only catches a file with too many stars
CountExceeds(nkeys, n) == nkeys > n

\* np.max(lnp_vals): one maximum over the whole matrix
MatMax(mat) == SetMax({mat[i][j] : i \in DOMAIN mat, j \in 1..nstars})

\* lnp_vals -= shift
Shift(mat, shift) == [i \in DOMAIN mat |-> [j \in DOMAIN mat[i] |-> mat[i][j] - shift]]

\* len(lnp_hdf.keys()) != nstars
CountDiffers(nkeys, n) == nkeys # n

\* ---------------------------------------------------------------- idle values
IdleLnp ==
    /\ store = <<>> /\ nstars = 0 /\ hdf_open = FALSE /\ lnp_init = FALSE
    /\ k = 0 /\ n_ivals = 0 /\ lnp_vals = <<>> /\ lnp_indxs = <<>> /\ nread = 0

IdleBeast ==
    /\ grid = <<>> /\ noise = <<>> /\ beast_params = <<>>
    /\ noise_open = FALSE /\ seds_open = FALSE /\ p = 0 /\ beast_data = <<>>

IdleGather ==
    /\ indxs = <<>> /\ table = <<>> /\ beast_on_lnp = <<>> /\ gk = 0

\* ---------------------------------------------------------------- read_lnp_data
Groups ==
    UNION {[lnp : [1..n -> LnpVals], idx : [1..n -> IdxVals]] : n \in 0..MaxIvals}

RECURSIVE TotalSamples(_)
TotalSamples(s) == IF s = <<>> THEN 0 ELSE Len(Head(s).lnp) + TotalSamples(Tail(s))

Init ==
    /\ pc = "lnp_start" /\ err = "" /\ ret = <<>>
    /\ store \in {s \in SeqsUpTo(Groups, MaxStars) : TotalSamples(s) <= MaxSamples}
    /\ nstars \in 0..MaxStars
    /\ hdf_open = FALSE /\ lnp_init = FALSE
    /\ k = 0 /\ n_ivals = 0 /\ lnp_vals = <<>> /\ lnp_indxs = <<>> /\ nread = 0
    /\ IdleBeast /\ IdleGather

\* line 31
OpenLnp ==
    /\ pc = "lnp_start"
    /\ hdf_open' = TRUE
    /\ pc' = "lnp_check"
    /\ UNCHANGED <<err, ret, store, nstars, lnp_init, k, n_ivals, lnp_vals,
                   lnp_indxs, nread, beastVars, gatherVars>>

\* lines 33-37
CountMismatch ==
    /\ pc = "lnp_check"
    /\ CountDiffers(Len(store), nstars)
    /\ hdf_open' = FALSE
    /\ err' = "SystemExit"
    /\ pc' = "lnp_raised"
    /\ UNCHANGED <<ret, store, nstars, lnp_init, k, n_ivals, lnp_vals,
                   lnp_indxs, nread, beastVars, gatherVars>>

\* lines 38-41
CountOk ==
    /\ pc = "lnp_check"
    /\ ~CountDiffers(Len(store), nstars)
    /\ lnp_init' = FALSE
    /\ k' = 1
    /\ pc' = "lnp_loop"
    /\ UNCHANGED <<err, ret, store, nstars, hdf_open, n_ivals, lnp_vals,
                   lnp_indxs, nread, beastVars, gatherVars>>

\* lines 41-50, one iteration of the loop over the groups
ReadStar ==
    /\ pc = "lnp_loop"
    /\ k <= Len(store)
    /\ LET first == ~lnp_init
           n == IF first THEN Len(store[k].lnp) ELSE n_ivals
           vals0 == IF first THEN Zeros(n, nstars) ELSE lnp_vals
           indxs0 == IF first THEN Zeros(n, nstars) ELSE lnp_indxs
           reads0 == IF first THEN nread + 1 ELSE nread
       IN /\ lnp_init' = TRUE
          /\ n_ivals' = n
          /\ IF ~CanBroadcast(Len(store[k].lnp), n)
             THEN \* line 49 raises
                  /\ lnp_vals' = vals0
                  /\ lnp_indxs' = indxs0
                  /\ nread' = reads0 + 1
                  /\ err' = "ValueError"
                  /\ pc' = "lnp_raised"
                  /\ k' = k
             ELSE IF ~CanBroadcast(Len(store[k].idx), n)
             THEN \* line 50 raises
                  /\ lnp_vals' = SetColumn(vals0, k, store[k].lnp)
                  /\ lnp_indxs' = indxs0
                  /\ nread' = reads0 + 2
                  /\ err' = "ValueError"
                  /\ pc' = "lnp_raised"
                  /\ k' = k
             ELSE /\ lnp_vals' = SetColumn(vals0, k, store[k].lnp)
                  /\ lnp_indxs' = SetColumn(indxs0, k,
                                     [i \in DOMAIN store[k].idx |-> ToInt64(store[k].idx[i])])
                  /\ nread' = reads0 + 2
                  /\ err' = err
                  /\ pc' = pc
                  /\ k' = k + 1
    /\ UNCHANGED <<ret, store, nstars, hdf_open, beastVars, gatherVars>>

\* line 51
CloseLnp ==
    /\ pc = "lnp_loop"
    /\ k > Len(store)
    /\ hdf_open' = FALSE
    /\ pc' = "lnp_shift"
    /\ UNCHANGED <<err, ret, store, nstars, lnp_init, k, n_ivals, lnp_vals,
                   lnp_indxs, nread, beastVars, gatherVars>>

\* lines 56-58
ShiftAndReturn ==
    /\ pc = "lnp_shift"
    /\ IF ~lnp_init
       THEN \* lnp_vals was never bound
            /\ err' = "UnboundLocalError" /\ pc' = "lnp_raised"
            /\ UNCHANGED <<ret, lnp_vals>>
       ELSE IF n_ivals = 0
       THEN \* np.max of a zero-size array
            /\ err' = "ValueError" /\ pc' = "lnp_raised"
            /\ UNCHANGED <<ret, lnp_vals>>
       ELSE /\ lnp_vals' = Shift(lnp_vals, MatMax(lnp_vals))
            /\ ret' = <<[vals |-> lnp_vals', indxs |-> lnp_indxs]>>
            /\ pc' = "lnp_done"
            /\ err' = err
    /\ UNCHANGED <<store, nstars, hdf_open, lnp_init, k, n_ivals, lnp_indxs,
                   nread, beastVars, gatherVars>>

Next ==
    \/ OpenLnp
    \/ CountMismatch
    \/ CountOk
    \/ ReadStar
    \/ CloseLnp
    \/ ShiftAndReturn

Spec == Init /\ [][Next]_vars

\* ---------------------------------------------------------------- read_beast_data
\* np.min(a, axis=1) in the place of np.max(a, axis=1)
RowMin(a) == [r \in DOMAIN a |-> -SetMax({-a[r][c] : c \in DOMAIN a[r]})]

\* np.max(a, axis=1) of a 2-D array with at least one column
RowMax(a) == [r \in DOMAIN a |-> SetMax({a[r][c] : c \in DOMAIN a[r]})]

\* the exception of a lookup of an absent name: beast_noise_hdf[name] is a
\* KeyError, beast_seds_hdf['grid'][name] (a field of the table) a ValueError
LookupError(name) == IF name = "completeness" THEN "KeyError" ELSE "ValueError"

\* the store and the key line 97 sends a requested name to
InNoise(name) == name = "completeness"

Present(name) == IF InNoise(name) THEN name \in DOMAIN noise ELSE name \in DOMAIN grid

\* the value lines 98 and 100 store for a requested name that is present
ReadValue(name) == IF InNoise(name) THEN RowMax(noise[name]) ELSE grid[name]

\* a lookup that yields an empty array for an absent name instead of raising
LookupOrEmpty(name) == IF Present(name) THEN <<ReadValue(name)>> ELSE << <<>> >>

\* the lookup of lines 98 and 100: <<value>>, or <<>> when it raises
Lookup(name) == IF Present(name) THEN <<ReadValue(name)>> ELSE <<>>

\* beast_data[name] = value
DictSet(d, name, value) ==
    [n \in DOMAIN d \cup {name} |-> IF n = name THEN value ELSE d[n]]

InitBeast ==
    /\ pc = "rb_start" /\ err = "" /\ ret = <<>>
    /\ \E rows \in 1..MaxRows :
          /\ \E cols \in SUBSET PhysNames : grid \in [cols -> [1..rows -> GridVals]]
          /\ \/ noise = <<>>
             \/ \E ncols \in {c \in 1..MaxCols : rows * c <= MaxNoiseCells} :
                   noise \in [{"completeness"} -> [1..rows -> [1..ncols -> GridVals]]]
    /\ beast_params \in SeqsUpTo(ReqNames, MaxParams)
    /\ noise_open = FALSE /\ seds_open = FALSE /\ p = 0 /\ beast_data = <<>>
    /\ IdleLnp /\ IdleGather

\* lines 87-90
OpenNoise ==
    /\ pc = "rb_start"
    /\ beast_data' = <<>>
    /\ noise_open' = TRUE
    /\ pc' = "rb_open_seds"
    /\ UNCHANGED <<err, ret, grid, noise, beast_params, seds_open, p, lnpVars, gatherVars>>

\* line 93
OpenSeds ==
    /\ pc = "rb_open_seds"
    /\ seds_open' = TRUE
    /\ p' = 1
    /\ pc' = "rb_loop"
    /\ UNCHANGED <<err, ret, grid, noise, beast_params, noise_open, beast_data,
                   lnpVars, gatherVars>>

\* lines 96-100, one iteration of the loop over beast_params
ReadParam ==
    /\ pc = "rb_loop"
    /\ p <= Len(beast_params)
    /\ LET cparam == beast_params[p]
       IN IF Lookup(cparam) # <<>>
          THEN /\ beast_data' = DictSet(beast_data, cparam, Lookup(cparam)[1])
               /\ p' = p + 1
               /\ UNCHANGED <<pc, err>>
          ELSE /\ err' = LookupError(cparam)
               /\ pc' = "rb_raised"
               /\ UNCHANGED <<beast_data, p>>
    /\ UNCHANGED <<ret, grid, noise, beast_params, noise_open, seds_open,
                   lnpVars, gatherVars>>

\* line 102
CloseNoise ==
    /\ pc = "rb_loop"
    /\ p > Len(beast_params)
    /\ noise_open' = FALSE
    /\ pc' = "rb_close_seds"
    /\ UNCHANGED <<err, ret, grid, noise, beast_params, seds_open, p, beast_data,
                   lnpVars, gatherVars>>

\* lines 103-105
CloseSedsAndReturn ==
    /\ pc = "rb_close_seds"
    /\ seds_open' = FALSE
    /\ ret' = <<beast_data>>
    /\ pc' = "rb_done"
    /\ UNCHANGED <<err, grid, noise, beast_params, noise_open, p, beast_data,
                   lnpVars, gatherVars>>

NextBeast ==
    \/ OpenNoise
    \/ OpenSeds
    \/ ReadParam
    \/ CloseNoise
    \/ CloseSedsAndReturn

SpecBeast == InitBeast /\ [][NextBeast]_vars

\* ---------------------------------------------------------------- extract_beast_data
\* what np.empty leaves in a cell: unspecified
EmptyFill == {0, 9}

\* numpy integer indexing arr[i] with zero-based i: a negative i counts from
\* the end, and i outside [-len, len) raises IndexError
IndexOk(arr, i) == -Len(arr) <= i /\ i < Len(arr)

\* an indexing that counts every index from the end
ItemFromEnd(arr, i) == IF i >= 0 THEN arr[Len(arr) - i] ELSE arr[Len(arr) + i + 1]

Item(arr, i) == IF i >= 0 THEN arr[i + 1] ELSE arr[Len(arr) + i + 1]

\* lnp_data['indxs'][:, col]
Column(m, col) == [i \in 1..m.n_lnps |-> m.a[i][col]]

\* arr[column] with an index array: IndexError when one index is out of bounds
TakeOk(arr, column) == \A i \in DOMAIN column : IndexOk(arr, column[i])

Take(arr, column) == [i \in DOMAIN column |-> Item(arr, column[i])]

\* the index values of the model: the rows of the largest grid, one past
\* them, and the negative ones down to -MaxRows
IndexVals == (-MaxRows)..MaxRows

\* the names of the parameter tables of the model
TableNames == {"Av", "completeness"}

Shapes ==
    {sh \in (0..MaxLnps) \X (0..MaxGStars) : sh[1] * sh[2] <= MaxIndexCells}

Matrices(S) ==
    UNION {[n_lnps : {sh[1]}, n_stars : {sh[2]}, a : [1..sh[1] -> [1..sh[2] -> S]]] :
              sh \in Shapes}

InitGather ==
    /\ pc = "ex_start" /\ err = "" /\ ret = <<>>
    /\ indxs \in Matrices(IndexVals)
    /\ \E names \in SUBSET TableNames :
          \E lens \in [names -> 1..MaxRows] :
             table = [name \in names |-> TableArray(name, lens[name])]
    /\ beast_on_lnp = <<>> /\ gk = 0
    /\ IdleLnp /\ IdleBeast

\* lines 128-134
SetupOutput ==
    /\ pc = "ex_start"
    /\ \E fill \in EmptyFill :
          beast_on_lnp' = [name \in DOMAIN table |->
                              [i \in 1..indxs.n_lnps |-> [j \in 1..indxs.n_stars |-> fill]]]
    /\ gk' = 1
    /\ pc' = "ex_loop"
    /\ UNCHANGED <<err, ret, indxs, table, lnpVars, beastVars>>

\* lines 138-141, one iteration of the loop over the stars, all parameters
ExtractStar ==
    /\ pc = "ex_loop"
    /\ gk <= indxs.n_stars
    /\ LET column == Column(indxs, gk)
       IN IF \A name \in DOMAIN table : TakeOk(table[name], column)
          THEN /\ beast_on_lnp' =
                     [name \in DOMAIN table |->
                         [i \in 1..indxs.n_lnps |->
                             [beast_on_lnp[name][i] EXCEPT
                                 ![gk] = Take(table[name], column)[i]]]]
               /\ gk' = gk + 1
               /\ UNCHANGED <<pc, err>>
          ELSE /\ err' = "IndexError"
               /\ pc' = "ex_raised"
               /\ UNCHANGED <<beast_on_lnp, gk>>
    /\ UNCHANGED <<ret, indxs, table, lnpVars, beastVars>>

\* line 143
ReturnGathered ==
    /\ pc = "ex_loop"
    /\ gk > indxs.n_stars
    /\ ret' = <<beast_on_lnp>>
    /\ pc' = "ex_done"
    /\ UNCHANGED <<err, indxs, table, beast_on_lnp, gk, lnpVars, beastVars>>

NextGather ==
    \/ SetupOutput
    \/ ExtractStar
    \/ ReturnGathered

SpecGather == InitGather /\ [][NextGather]_vars

\* ================================================================ properties
\* ---------------------------------------------------------------- read_lnp_data
LnpLeft == pc \in {"lnp_raised", "lnp_done"}

\* C1: when the number of groups of the file differs from nstars, the function
\* never gets past the count check: it ends in the exit of line 37, no dataset
\* of the file has been read, and no matrix exists or is returned.
C1_CountMismatchFailsFast ==
    Len(store) # nstars =>
        /\ pc \in {"lnp_start", "lnp_check", "lnp_raised"}
        /\ nread = 0
        /\ lnp_vals = <<>> /\ lnp_indxs = <<>>
        /\ ret = <<>>
        /\ (pc = "lnp_raised" => err = "SystemExit")

C1_Witness ==
    /\ pc = "lnp_raised" /\ err = "SystemExit"
    /\ Len(store) = 1 /\ nstars = 2 /\ Len(store[1].lnp) = 2

\* C2: when the count matches and a star after the first has a number of
\* samples that differs from the first star's, the function does not return:
\* no matrices come out of it.
C2_RaggedStarFails ==
    (Len(store) = nstars /\ \E j \in 2..Len(store) : Len(store[j].lnp) # Len(store[1].lnp)) =>
        /\ pc # "lnp_done"
        /\ ret = <<>>

\* C3: the step that normalizes and returns subtracts one constant, the maximum
\* of the whole assembled matrix, from every entry: the returned maximum is 0,
\* every entry is <= 0, and the difference of any two entries is kept.
C3_GlobalShift ==
    [][(pc = "lnp_shift" /\ pc' = "lnp_done") =>
         LET A == lnp_vals
             R == ret'[1].vals
             I == 1..n_ivals
             J == 1..nstars
         IN /\ I # {} /\ J # {}
            /\ DOMAIN R = I /\ \A i \in I : DOMAIN R[i] = J
            /\ \E i0 \in I, j0 \in J :
                  /\ \A i \in I, j \in J : A[i][j] <= A[i0][j0]
                  /\ \A i \in I, j \in J : R[i][j] = A[i][j] - A[i0][j0]
            /\ \E i \in I, j \in J : R[i][j] = 0
            /\ \A i \in I, j \in J : R[i][j] <= 0
            /\ \A i \in I, j \in J, i2 \in I, j2 \in J :
                  R[i][j] - R[i2][j2] = A[i][j] - A[i2][j2]]_vars

\* a returned matrix of two stars with different maxima
C3_Witness ==
    /\ pc = "lnp_done" /\ ret # <<>>
    /\ nstars = 2 /\ n_ivals = 2
    /\ store[1].lnp = <<-3, -3>> /\ store[2].lnp = <<1, -3>>
    /\ ret[1].vals = <<<<-4, 0>>, <<-4, -4>>>>

\* C6: whenever control has left read_lnp_data, by return, by the exit of the
\* count check or by an exception of the loop, the file opened at line 31 is
\* closed.
C6_LnpFileClosedOnExit == LnpLeft => ~hdf_open

\* C8: a returned pair of matrices has the shape (samples of the first star,
\* nstars), and entry (i, j) of the two matrices is the i-th (idx, lnp) pair of
\* the j-th group of the file, the lnp value shifted by one constant.
C8_PairsAligned ==
    pc = "lnp_done" =>
        LET R == ret[1]
            I == 1..Len(store[1].lnp)
            J == 1..Len(store)
        IN /\ DOMAIN R.vals = I /\ DOMAIN R.indxs = I
           /\ \A i \in I : DOMAIN R.vals[i] = J /\ DOMAIN R.indxs[i] = J
           /\ \E c \in LnpVals :
                 \A i \in I, j \in J :
                    /\ i \in DOMAIN store[j].lnp
                    /\ R.indxs[i][j] = store[j].idx[i]
                    /\ R.vals[i][j] + c = store[j].lnp[i]

\* ---------------------------------------------------------------- read_beast_data
Absent(name) ==
    IF name = "completeness" THEN name \notin DOMAIN noise ELSE name \notin DOMAIN grid

Requested == {beast_params[q] : q \in DOMAIN beast_params}

\* C7: whenever control has left read_beast_data, by return or by an exception
\* of the loop, the two files opened at lines 90 and 93 are closed.
C7_GridFilesClosedOnExit ==
    pc \in {"rb_raised", "rb_done"} => (~noise_open /\ ~seds_open)

\* C9: when every requested name is present the load does not raise, and the
\* returned table holds exactly the requested names: "completeness" is, row by
\* row, the maximum over the columns of the noise array, every other name is
\* the column of that name of the grid table.
C9_TableContents ==
    /\ ((\A n \in Requested : ~Absent(n)) => pc # "rb_raised")
    /\ pc = "rb_done" =>
          LET T == ret[1]
          IN /\ DOMAIN T = Requested
             /\ \A n \in Requested :
                   IF n = "completeness"
                   THEN /\ DOMAIN T[n] = DOMAIN noise[n]
                        /\ \A r \in DOMAIN noise[n] :
                              /\ \E c \in DOMAIN noise[n][r] : T[n][r] = noise[n][r][c]
                              /\ \A c \in DOMAIN noise[n][r] : T[n][r] >= noise[n][r][c]
                   ELSE T[n] = grid[n]

\* a returned table with completeness reduced from two differing columns
C9_Witness ==
    /\ pc = "rb_done"
    /\ beast_params = <<"completeness", "Av">>
    /\ noise["completeness"] = <<<<5, 7>>, <<7, 5>>>>
    /\ ret[1]["completeness"] = <<7, 7>>
    /\ ret[1]["Av"] = <<5, 7>>

\* C10: when a requested name is absent from the store it is looked up in, the
\* load raises at the first such name of the list: the loop never gets past
\* it, the exception is the one of the lookup of that name, and no table is
\* returned.
C10_MissingNameFails ==
    \A q \in DOMAIN beast_params :
        (Absent(beast_params[q]) /\ \A q2 \in 1..(q - 1) : ~Absent(beast_params[q2])) =>
            /\ pc \notin {"rb_close_seds", "rb_done"}
            /\ ret = <<>>
            /\ ~(pc = "rb_loop" /\ p > q)
            /\ (pc = "rb_raised" => (p = q /\ err = LookupError(beast_params[q])))

\* the second requested name is absent, the first one was read
C10_Witness ==
    /\ pc = "rb_raised"
    /\ Len(beast_params) = 2 /\ p = 2
    /\ Absent(beast_params[2])
    /\ DOMAIN beast_data = {beast_params[1]}
    /\ ret = <<>>

\* ---------------------------------------------------------------- extract_beast_data
Entries == {indxs.a[i][j] : i \in 1..indxs.n_lnps, j \in 1..indxs.n_stars}

ValidRow(e, name) == 0 <= e /\ e < Len(table[name])

\* C4: when every entry of the index matrix is a row of every parameter array,
\* the gather does not raise, and the returned table has the names of the
\* parameter table, each matrix has the shape of the index matrix, and entry
\* (i, j) is the parameter value at row indxs[i, j].
C4_GatherCorrect ==
    (\A e \in Entries, name \in DOMAIN table : ValidRow(e, name)) =>
        /\ pc # "ex_raised"
        /\ pc = "ex_done" =>
              LET G == ret[1]
                  I == 1..indxs.n_lnps
                  J == 1..indxs.n_stars
              IN /\ DOMAIN G = DOMAIN table
                 /\ \A name \in DOMAIN table :
                       /\ DOMAIN G[name] = I
                       /\ \A i \in I :
                             /\ DOMAIN G[name][i] = J
                             /\ \A j \in J : G[name][i][j] = table[name][indxs.a[i][j] + 1]

\* a gathered table of two parameters, with a repeated index in one column
C4_Witness ==
    /\ pc = "ex_done"
    /\ DOMAIN table = TableNames
    /\ Len(table["Av"]) = 2 /\ Len(table["completeness"]) = 2
    /\ indxs.n_lnps = 2 /\ indxs.n_stars = 2
    /\ indxs.a = <<<<1, 0>>, <<1, 1>>>>
    /\ ret[1]["Av"] = <<<<12, 11>>, <<12, 12>>>>

\* C5: when some entry of the index matrix is outside [0, len) of some
\* parameter array, the gather returns no table: it leaves with an error.
C5_OutOfRangeFails ==
    (\E e \in Entries, name \in DOMAIN table : ~ValidRow(e, name)) =>
        /\ pc # "ex_done"
        /\ ret = <<>>

====
